---- MODULE Spec2Model ----
(***************************************************************************)
(* Chesspirito: a chess rules engine (board, per-piece move generators,    *)
(* legality filter, castling / en passant / promotion, game-over state,    *)
(* history ledger with undo).                                              *)
(*                                                                         *)
(* The engine object is modelled as a record `t` ("this") whose fields are *)
(* the fields of class Chesspirito; every method is an operator from the   *)
(* engine record (and the call's arguments) to the engine record after the *)
(* call.  Piece objects live in the table t.pieces and are referred to by  *)
(* their index in it (an object reference); 0 is the null reference.       *)
(***************************************************************************)
EXTENDS Integers, Sequences, FiniteSets, TLC

RANK_LENGTH == 8

FILES == <<"a", "b", "c", "d", "e", "f", "g", "h">>
RANKS == <<8, 7, 6, 5, 4, 3, 2, 1>>

\* The null piece reference (type Square = ChessPiece | null).
Null == 0
\* The null Position (whiteKingPosition, blackKingPosition, enPassantable).
NoPos == [y |-> -1, x |-> -1]
\* The null value of gameOver and check.
None == "null"

Pos(y, x) == [y |-> y, x |-> x]

\* Bind(v, F) is F(v) with v evaluated once, before F: a local const.
Bind(v, F(_)) == CHOOSE result \in {F(value) : value \in {v}} : TRUE

WhitePieces == {"P", "N", "B", "R", "Q", "K"}
BlackPieces == {"p", "n", "b", "r", "q", "k"}
\* Object.values(Piece)
PieceValues == WhitePieces \cup BlackPieces

\* The colour a piece class is constructed with by ChessPieceFactory.create.
ColorOfType(type) == IF type \in WhitePieces THEN "w" ELSE "b"

\* instanceof Pawn / instanceof King
IsPawn(piece) == piece.type \in {"P", "p"}
IsKing(piece) == piece.type \in {"K", "k"}

getOppositeColor(color) == IF color = "w" THEN "b" ELSE "w"

isOutOfBounds(num) == num < 0 \/ num > 7

isPositionOutOfBounds(pos) == isOutOfBounds(pos.y) \/ isOutOfBounds(pos.x)

isSamePosition(pos1, pos2) == pos1.x = pos2.x /\ pos1.y = pos2.y

\* A Move object; an absent optional flag is FALSE.
MkMove(from, to, onlyMove, onlyAttack) ==
  [from |-> from, to |-> to, onlyMove |-> onlyMove, onlyAttack |-> onlyAttack,
   enPassant |-> FALSE]

----------------------------------------------------------------------------
(* Board storage *)

getSquare(t, pos) == t.board[pos.y][pos.x]

\* A faulty variant of setSquare that leaves the piece's stored coordinate
\* alone; C15 tells the two apart.
setSquareKeepsCoordinate(t, pos, square) ==
  LET t1 == [t EXCEPT !.board[pos.y][pos.x] = square]
  IN IF square = Null THEN t1
     ELSE IF IsKing(t.pieces[square])
     THEN IF t.pieces[square].color = "w"
          THEN [t1 EXCEPT !.whiteKingPosition = pos]
          ELSE [t1 EXCEPT !.blackKingPosition = pos]
     ELSE t1

setSquare(t, pos, square) ==
  LET t1 == [t EXCEPT !.board[pos.y][pos.x] = square]
  IN IF square = Null THEN t1
     ELSE LET t2 == [t1 EXCEPT !.pieces[square].position = pos]
          IN IF IsKing(t.pieces[square])
             THEN IF t.pieces[square].color = "w"
                  THEN [t2 EXCEPT !.whiteKingPosition = pos]
                  ELSE [t2 EXCEPT !.blackKingPosition = pos]
             ELSE t2

isSquareEmpty(t, pos) == getSquare(t, pos) = Null

togglePlayingColor(t) ==
  [t EXCEPT !.playingColor = getOppositeColor(t.playingColor)]

----------------------------------------------------------------------------
(* Piece move generators; `piece` is the piece object t.pieces[ref] *)

RECURSIVE slidingRay(_, _, _, _)
slidingRay(t, piece, direction, pos) ==
  IF isPositionOutOfBounds(pos) THEN <<>>
  ELSE LET targetSquare == getSquare(t, pos)
           here == IF targetSquare = Null
                      \/ t.pieces[targetSquare].color # piece.color
                   THEN <<MkMove(piece.position, pos, FALSE, FALSE)>>
                   ELSE <<>>
       IN IF targetSquare # Null THEN here
          ELSE here \o Bind(Pos(pos.y + direction[1], pos.x + direction[2]),
                            LAMBDA next : slidingRay(t, piece, direction, next))

RECURSIVE slidingFrom(_, _, _, _)
slidingFrom(t, piece, directions, i) ==
  IF i > Len(directions) THEN <<>>
  ELSE Bind(Pos(piece.position.y + directions[i][1],
                piece.position.x + directions[i][2]),
            LAMBDA pos : slidingRay(t, piece, directions[i], pos))
       \o slidingFrom(t, piece, directions, i + 1)

generateSlidingMoves(t, piece, directions) == slidingFrom(t, piece, directions, 1)

\* The filter callback of Pawn.generateMoves: is the candidate kept?
PawnFilterKeeps(t, piece, move) ==
  IF isPositionOutOfBounds(move.to) THEN FALSE
  ELSE LET target == getSquare(t, move.to)
           enPassantable == t.enPassantable
       IN IF target # Null /\ move.onlyMove THEN FALSE
          ELSE IF target = Null /\ enPassantable # NoPos
                  /\ isSamePosition(
                       Pos(enPassantable.y + (IF t.playingColor = "w" THEN 1 ELSE -1),
                           enPassantable.x),
                       move.to)
               THEN TRUE
               ELSE IF target = Null /\ move.onlyAttack THEN FALSE
               ELSE target = Null \/ t.pieces[target].color # piece.color

\* The filter callback's side effect: move.enPassant = true on the kept
\* candidate whose destination is the square derived from enPassantable.
PawnFilterMarks(t, move) ==
  /\ getSquare(t, move.to) = Null
  /\ t.enPassantable # NoPos
  /\ isSamePosition(
       Pos(t.enPassantable.y + (IF t.playingColor = "w" THEN 1 ELSE -1),
           t.enPassantable.x),
       move.to)

PawnGenerateMoves(t, piece) ==
  LET step == IF piece.color = "w" THEN -1 ELSE 1
      p == piece.position
      forwardMove == MkMove(p, Pos(p.y + step, p.x), TRUE, FALSE)
      base == << forwardMove,
                 MkMove(p, Pos(p.y + step, p.x - 1), FALSE, TRUE),
                 MkMove(p, Pos(p.y + step, p.x + 1), FALSE, TRUE) >>
      moves == IF Len(piece.history) = 0 /\ isSquareEmpty(t, forwardMove.to)
               THEN Append(base, MkMove(p, Pos(p.y + step * 2, p.x), TRUE, FALSE))
               ELSE base
  IN Bind(SelectSeq(moves, LAMBDA move : PawnFilterKeeps(t, piece, move)),
          LAMBDA kept :
            [i \in 1..Len(kept) |->
               IF PawnFilterMarks(t, kept[i]) THEN [kept[i] EXCEPT !.enPassant = TRUE]
               ELSE kept[i]])

KnightOffsets ==
  << <<-1, -2>>, <<-2, -1>>, <<-2, 1>>, <<-1, 2>>,
     <<1, 2>>, <<2, 1>>, <<2, -1>>, <<1, -2>> >>

KingOffsets ==
  << <<-1, -1>>, <<-1, 0>>, <<-1, 1>>, <<0, 1>>,
     <<1, 1>>, <<1, 0>>, <<1, -1>>, <<0, -1>> >>

\* A faulty variant of the shared shape that keeps destinations held by the
\* piece's own colour; C27 tells the two apart.
OffsetMovesOntoOwn(t, piece, offsets) ==
  SelectSeq([i \in 1..Len(offsets) |->
               MkMove(piece.position,
                      Pos(piece.position.y + offsets[i][1],
                          piece.position.x + offsets[i][2]),
                      FALSE, FALSE)],
            LAMBDA move : ~isPositionOutOfBounds(move.to))

\* Knight.generateMoves and King.generateMoves share this shape.
OffsetMoves(t, piece, offsets) ==
  LET moves == [i \in 1..Len(offsets) |->
                  MkMove(piece.position,
                         Pos(piece.position.y + offsets[i][1],
                             piece.position.x + offsets[i][2]),
                         FALSE, FALSE)]
  IN SelectSeq(moves, LAMBDA move :
       /\ ~isPositionOutOfBounds(move.to)
       /\ (getSquare(t, move.to) = Null
           \/ t.pieces[getSquare(t, move.to)].color # piece.color))

\* A faulty variant of Knight.generateMoves that steps like a king; C19
\* tells the two apart.
KnightGenerateMovesAsKing(t, piece) == OffsetMoves(t, piece, KingOffsets)

KnightGenerateMoves(t, piece) == OffsetMoves(t, piece, KnightOffsets)

BishopDirections == << <<-1, -1>>, <<-1, 1>>, <<1, 1>>, <<1, -1>> >>
RookDirections == << <<0, -1>>, <<-1, 0>>, <<0, 1>>, <<1, 0>> >>

\* A faulty direction list for the queen, without the diagonals; C26 tells
\* the two apart.
QueenDirectionsOrthogonal == RookDirections

QueenDirections == RookDirections \o BishopDirections

BishopGenerateMoves(t, piece) == generateSlidingMoves(t, piece, BishopDirections)
RookGenerateMoves(t, piece) == generateSlidingMoves(t, piece, RookDirections)
QueenGenerateMoves(t, piece) == generateSlidingMoves(t, piece, QueenDirections)

KingGenerateMoves(t, piece) == OffsetMoves(t, piece, KingOffsets)

\* piece.generateMoves(): dispatch on the class of the piece object.
PieceGenerateMoves(t, piece) ==
  CASE piece.type \in {"P", "p"} -> PawnGenerateMoves(t, piece)
    [] piece.type \in {"N", "n"} -> KnightGenerateMoves(t, piece)
    [] piece.type \in {"B", "b"} -> BishopGenerateMoves(t, piece)
    [] piece.type \in {"R", "r"} -> RookGenerateMoves(t, piece)
    [] piece.type \in {"Q", "q"} -> QueenGenerateMoves(t, piece)
    [] piece.type \in {"K", "k"} -> KingGenerateMoves(t, piece)

----------------------------------------------------------------------------
(* Chesspirito: move generation, legality filter, attack tests *)

\* The body of the two loops of generateMoves for one square.
squareMoves(t, color, y, x) ==
  LET ref == t.board[y][x]
  IN IF ref # Null /\ t.pieces[ref].color = color
     THEN Bind(t.pieces[ref], LAMBDA piece : PieceGenerateMoves(t, piece))
     ELSE <<>>

\* moves.concat over the 8 entries of a per-file or per-rank table, in order.
Concat8(table) ==
  table[0] \o table[1] \o table[2] \o table[3]
  \o table[4] \o table[5] \o table[6] \o table[7]

\* The inner loop (x = 0..7) for rank y.
rankMoves(t, color, y) ==
  Bind([x \in 0..(RANK_LENGTH - 1) |-> squareMoves(t, color, y, x)],
       LAMBDA table : Concat8(table))

\* The outer loop (y = 0..7).
generateMoves(t, color) ==
  Bind([y \in 0..(RANK_LENGTH - 1) |-> rankMoves(t, color, y)],
       LAMBDA table : Concat8(table))

\* opponentMoves.some(move => the square move.to holds the king of `color`)
threatensKing(t, color) ==
  LET king == IF color = "w" THEN "K" ELSE "k"
  IN \E opponentMoves \in {generateMoves(t, getOppositeColor(color))} :
       \E i \in 1..Len(opponentMoves) :
         LET ref == getSquare(t, opponentMoves[i].to)
         IN ref # Null /\ t.pieces[ref].type = king

\* One iteration of the loop of generateLegalMoves: the candidate is played
\* on the board with setSquare, tested, and taken back with setSquare.
\* Yields the engine after the iteration and whether the candidate is kept.
\* A faulty variant of simulateMove that takes back only the candidates it
\* keeps; C18 tells the two apart.
simulateMoveKeepsDiscarded(t, color, pseudoLegalMove) ==
  LET square == getSquare(t, pseudoLegalMove.from)
      targetSquare == getSquare(t, pseudoLegalMove.to)
  IN Bind(setSquare(t, pseudoLegalMove.to, square), LAMBDA t1 :
     Bind(setSquare(t1, pseudoLegalMove.from, Null), LAMBDA t2 :
     Bind(threatensKing(t2, color), LAMBDA threatens :
       IF threatens THEN [t |-> t2, legal |-> FALSE]
       ELSE
       Bind(setSquare(t2, pseudoLegalMove.to, targetSquare), LAMBDA t3 :
       Bind(setSquare(t3, pseudoLegalMove.from, square), LAMBDA t4 :
         [t |-> t4, legal |-> TRUE])))))

simulateMove(t, color, pseudoLegalMove) ==
  LET square == getSquare(t, pseudoLegalMove.from)
      targetSquare == getSquare(t, pseudoLegalMove.to)
  IN Bind(setSquare(t, pseudoLegalMove.to, square), LAMBDA t1 :
     Bind(setSquare(t1, pseudoLegalMove.from, Null), LAMBDA t2 :
     Bind(threatensKing(t2, color), LAMBDA threatens :
     Bind(setSquare(t2, pseudoLegalMove.to, targetSquare), LAMBDA t3 :
     Bind(setSquare(t3, pseudoLegalMove.from, square), LAMBDA t4 :
       [t |-> t4, legal |-> ~threatens])))))

\* The loop of generateLegalMoves over pseudoLegalMoves[lo..hi], in order:
\* the first half, then the second half on the engine the first leaves.
\* Yields the engine after the last iteration and the candidates kept.
RECURSIVE legalMovesLoop(_, _, _, _, _)
legalMovesLoop(t, color, pseudoLegalMoves, lo, hi) ==
  IF lo > hi THEN [t |-> t, moves |-> <<>>]
  ELSE IF lo = hi
  THEN Bind(simulateMove(t, color, pseudoLegalMoves[lo]), LAMBDA r :
         [t |-> r.t,
          moves |-> IF r.legal THEN <<pseudoLegalMoves[lo]>> ELSE <<>>])
  ELSE Bind((lo + hi) \div 2, LAMBDA mid :
       Bind(legalMovesLoop(t, color, pseudoLegalMoves, lo, mid), LAMBDA first :
       Bind(legalMovesLoop(first.t, color, pseudoLegalMoves, mid + 1, hi),
            LAMBDA second :
              [t |-> second.t, moves |-> first.moves \o second.moves])))

\* Yields [t: the engine after the call, moves: the legal moves].
generateLegalMoves(t, color) ==
  Bind(generateMoves(t, color), LAMBDA pseudoLegalMoves :
    legalMovesLoop(t, color, pseudoLegalMoves, 1, Len(pseudoLegalMoves)))

isSquareAttacked(t, attackingColor, target) ==
  \E moves \in {generateMoves(t, attackingColor)} :
    \E i \in 1..Len(moves) :
      ~moves[i].onlyMove /\ isSamePosition(moves[i].to, target)

\* NoPos stands for the thrown Error("King not found").
getKingPosition(t, color) ==
  IF color = "w" THEN t.whiteKingPosition ELSE t.blackKingPosition

\* A faulty variant of inCheck that never reports a check; C20 tells the
\* two apart.
inCheckNever(t, color) == FALSE

\* A faulty variant of inCheck that always reports a check; C21 tells the
\* two apart.
inCheckAlways(t, color) == TRUE

inCheck(t, color) ==
  isSquareAttacked(t, getOppositeColor(color), getKingPosition(t, color))

----------------------------------------------------------------------------
(* Notation *)

DigitChars == <<"0", "1", "2", "3", "4", "5", "6", "7", "8", "9">>

\* Number(char) of a single character; -1 stands for NaN.
NumberOf(char) ==
  IF \E i \in 1..Len(DigitChars) : DigitChars[i] = char
  THEN (CHOOSE i \in 1..Len(DigitChars) : DigitChars[i] = char) - 1
  ELSE -1

\* A string argument is modelled as [s: its sequence of characters]; any
\* other argument is a Position object.
Str(chars) == [s |-> chars]
IsString(arg) == "s" \in DOMAIN arg

RECURSIVE Join(_)
Join(chars) == IF Len(chars) = 0 THEN "" ELSE Head(chars) \o Join(Tail(chars))

\* Array.prototype.indexOf, 0-based, -1 if absent.
IndexOf(seq, v) ==
  IF \E i \in 1..Len(seq) : seq[i] = v
  THEN (CHOOSE i \in 1..Len(seq) : seq[i] = v /\ \A j \in 1..(i - 1) : seq[j] # v) - 1
  ELSE -1

\* Yields [pos, error, arg]; error = "" when the string is a square.
getPositionFromMove(mv) ==
  IF Len(mv) # 2
  THEN [pos |-> NoPos, error |-> "Invalid move = ", arg |-> Join(mv)]
  ELSE LET file == mv[1]
           fileIndex == IndexOf(FILES, file)
           rank == mv[2]
           rankIndex == IndexOf(RANKS, NumberOf(rank))
       IN IF fileIndex = -1
          THEN [pos |-> NoPos, error |-> "Invalid file = ", arg |-> file]
          ELSE IF rankIndex = -1
          THEN [pos |-> NoPos, error |-> "Invalid rank = ", arg |-> rank]
          ELSE [pos |-> Pos(rankIndex, fileIndex), error |-> "", arg |-> ""]

\* FILES[pos.x] + RANKS[pos.y]; an index off the array reads undefined.
getMoveFromPosition(pos) ==
  (IF isOutOfBounds(pos.x) THEN "undefined" ELSE FILES[pos.x + 1])
  \o (IF isOutOfBounds(pos.y) THEN "undefined" ELSE DigitChars[RANKS[pos.y + 1] + 1])

\* o: SanGenerationOptions, with promotion = None for null.
generateLanFromMove(o) ==
  LET lan0 == IF ~IsPawn(o.piece) THEN o.piece.type \o o.from ELSE o.from
      lan1 == IF o.capture THEN lan0 \o "x" ELSE lan0
      lan2 == lan1 \o o.to
      lan3 == IF o.promotion # None THEN lan2 \o "=" \o o.promotion ELSE lan2
      lan4 == IF o.mate THEN lan3 \o "#"
              ELSE IF o.check THEN lan3 \o "+" ELSE lan3
  IN IF o.enPassant THEN lan4 \o " e.p." ELSE lan4

----------------------------------------------------------------------------
(* Turn handling, castling, move, undo.  A method that can throw yields    *)
(* [t: the engine when the call ends, error: the message, "" if none].     *)

\* error is the message up to its variable part, arg the variable part.
Return(t) == [t |-> t, error |-> "", arg |-> ""]
Throw(t, message) == [t |-> t, error |-> message, arg |-> ""]
ThrowWith(t, message, arg) == [t |-> t, error |-> message, arg |-> arg]

\* Array.prototype.push / pop on a piece's history or the ledger.
Pop(seq) == IF Len(seq) = 0 THEN seq ELSE SubSeq(seq, 1, Len(seq) - 1)

pushPieceHistory(t, ref, pos) ==
  [t EXCEPT !.pieces[ref].history = Append(@, pos)]

popPieceHistory(t, ref) ==
  [t EXCEPT !.pieces[ref].history = Pop(@)]

\* A faulty variant of handleNextTurn that credits a mate to the mated side;
\* C5 tells the two apart.
handleNextTurnLoserWins(t, mate, draw, nextLegalMoves) ==
  LET t1 == IF mate \/ draw THEN [t EXCEPT !.currLegalMoves = <<>>] ELSE t
  IN IF mate
     THEN [t1 EXCEPT !.gameOver = IF t.playingColor = "w" THEN "0-1" ELSE "1-0"]
     ELSE IF draw
     THEN [t1 EXCEPT !.gameOver = "0-0"]
     ELSE [togglePlayingColor(t1) EXCEPT !.currLegalMoves = nextLegalMoves]

\* A faulty variant of handleNextTurn that hands the turn over without
\* looking at mate or draw; C34 tells the two apart.
handleNextTurnPlaysOn(t, mate, draw, nextLegalMoves) ==
  [togglePlayingColor(t) EXCEPT !.currLegalMoves = nextLegalMoves]

handleNextTurn(t, mate, draw, nextLegalMoves) ==
  LET t1 == IF mate \/ draw THEN [t EXCEPT !.currLegalMoves = <<>>] ELSE t
  IN IF mate
     THEN [t1 EXCEPT !.gameOver = IF t.playingColor = "w" THEN "1-0" ELSE "0-1"]
     ELSE IF draw
     THEN [t1 EXCEPT !.gameOver = "0-0"]
     ELSE [togglePlayingColor(t1) EXCEPT !.currLegalMoves = nextLegalMoves]

\* The fixed squares of handleCastling.
CastlingRookFrom(isQueenside, isWhite) ==
  IF isQueenside THEN (IF isWhite THEN Pos(7, 0) ELSE Pos(0, 0))
  ELSE (IF isWhite THEN Pos(7, 7) ELSE Pos(0, 7))

\* A faulty variant of CastlingRookTo with the two sides' squares swapped;
\* C9 tells the two apart.
CastlingRookToSwapped(isQueenside, isWhite) ==
  IF isQueenside THEN (IF isWhite THEN Pos(7, 5) ELSE Pos(0, 5))
  ELSE (IF isWhite THEN Pos(7, 3) ELSE Pos(0, 3))

CastlingRookTo(isQueenside, isWhite) ==
  IF isQueenside THEN (IF isWhite THEN Pos(7, 3) ELSE Pos(0, 3))
  ELSE (IF isWhite THEN Pos(7, 5) ELSE Pos(0, 5))

CastlingEmptySquaresRequired(isQueenside, isWhite) ==
  IF isQueenside
  THEN (IF isWhite THEN <<Pos(7, 3), Pos(7, 2), Pos(7, 1)>>
        ELSE <<Pos(0, 3), Pos(0, 2), Pos(0, 1)>>)
  ELSE (IF isWhite THEN <<Pos(7, 5), Pos(7, 6)>>
        ELSE <<Pos(0, 5), Pos(0, 6)>>)

\* The part of handleCastling after its five checks (lines 796-838).
castlingApply(t, king, from, to, isQueenside, rook, rookFrom, rookTo) ==
  LET opponentColor == getOppositeColor(t.playingColor)
  IN Bind(setSquare(t, to, king), LAMBDA t1 :
     Bind(setSquare(t1, from, Null), LAMBDA t2 :
     Bind(setSquare(t2, rookTo, rook), LAMBDA t3 :
     Bind(setSquare(t3, rookFrom, Null), LAMBDA t4 :
     Bind(generateLegalMoves(t4, opponentColor), LAMBDA legal :
       IF getKingPosition(legal.t, opponentColor) = NoPos
       THEN Throw(legal.t, "King not found")
       ELSE
       Bind(inCheck(legal.t, opponentColor), LAMBDA check :
       LET opponentLegalMoves == legal.moves
           mate == Len(opponentLegalMoves) = 0 /\ check
           draw == Len(opponentLegalMoves) = 0 /\ ~check
           san0 == IF isQueenside THEN "O-O-O" ELSE "O-O"
           san == IF mate THEN san0 \o "#"
                  ELSE IF check THEN san0 \o "+" ELSE san0
       IN Bind([legal.t EXCEPT !.check = IF check THEN opponentColor ELSE None],
               LAMBDA t5 :
          Bind(pushPieceHistory(t5, king, from), LAMBDA t6 :
          Bind(pushPieceHistory(t6, rook, rookFrom), LAMBDA t7 :
          Bind([t7 EXCEPT !.history = Append(@,
                  [from |-> from, to |-> to, capture |-> Null,
                   promotion |-> Null, castling |-> rook, lan |-> san])],
               LAMBDA t8 :
            Return(handleNextTurn(t8, mate, draw, opponentLegalMoves))))))))))))

\* The five checks of handleCastling, in the order of its throw statements
\* (lines 712-794): the message of the first that throws, "" if none does.
castlingError(t, king, from, to) ==
  LET isQueenside == from.x > to.x
      isWhite == t.playingColor = "w"
      rookFrom == CastlingRookFrom(isQueenside, isWhite)
      emptySquaresRequired == CastlingEmptySquaresRequired(isQueenside, isWhite)
      rook == getSquare(t, rookFrom)
      notAttackedSquaresRequired == SubSeq(emptySquaresRequired, 1, 2)
      opponentColor == getOppositeColor(t.playingColor)
  IN IF Len(t.pieces[king].history) > 0
     THEN "Invalid castling = not first King move"
     ELSE IF rook = Null \/ Len(t.pieces[rook].history) > 0
     THEN "Invalid castling = not first Rook move"
     ELSE IF \E i \in 1..Len(emptySquaresRequired) :
               ~isSquareEmpty(t, emptySquaresRequired[i])
     THEN "Invalid castling = blocked by piece"
     ELSE IF inCheck(t, t.playingColor)
     THEN "Invalid castling = King in check"
     ELSE IF \E i \in 1..Len(notAttackedSquaresRequired) :
               isSquareAttacked(t, opponentColor, notAttackedSquaresRequired[i])
     THEN "Invalid castling = blocked by attack"
     ELSE ""

\* A faulty variant of handleCastling that relocates the king before it
\* tests the preconditions; C3 tells the two apart.
handleCastlingKingFirst(t, king, from, to) ==
  LET isQueenside == from.x > to.x
      isWhite == t.playingColor = "w"
      rookFrom == CastlingRookFrom(isQueenside, isWhite)
  IN Bind(castlingError(t, king, from, to), LAMBDA error :
       IF error # "" THEN Throw(setSquare(setSquare(t, to, king), from, Null), error)
       ELSE castlingApply(t, king, from, to, isQueenside, getSquare(t, rookFrom),
                          rookFrom, CastlingRookTo(isQueenside, isWhite)))

handleCastling(t, king, from, to) ==
  LET isQueenside == from.x > to.x
      isWhite == t.playingColor = "w"
      rookFrom == CastlingRookFrom(isQueenside, isWhite)
  IN Bind(castlingError(t, king, from, to), LAMBDA error :
       IF error # "" THEN Throw(t, error)
       ELSE castlingApply(t, king, from, to, isQueenside, getSquare(t, rookFrom),
                          rookFrom, CastlingRookTo(isQueenside, isWhite)))

\* new Pawn / Knight / ... (board, color, pos): a fresh object, reference
\* Len(t.pieces) + 1, with an empty history.
ChessPieceFactoryCreate(t, type, pos) ==
  [t EXCEPT !.pieces = Append(@, [type |-> type, color |-> ColorOfType(type),
                                  position |-> pos, history |-> <<>>])]

\* A faulty variant of PromotionType that always builds a white piece; C13
\* tells the two apart.
PromotionTypeWhite(t, promotion) ==
  CASE promotion = "N" -> "N"
    [] promotion = "B" -> "B"
    [] promotion = "R" -> "R"
    [] promotion = "Q" -> "Q"

PromotionType(t, promotion) ==
  CASE promotion = "N" -> (IF t.playingColor = "w" THEN "N" ELSE "n")
    [] promotion = "B" -> (IF t.playingColor = "w" THEN "B" ELSE "b")
    [] promotion = "R" -> (IF t.playingColor = "w" THEN "R" ELSE "r")
    [] promotion = "Q" -> (IF t.playingColor = "w" THEN "Q" ELSE "q")

PromotionChessPieceFactoryCreate(t, promotion, pos) ==
  ChessPieceFactoryCreate(t, PromotionType(t, promotion), pos)

\* The argument that stands for an omitted promotion parameter.
Omitted == "undefined"

\* currLegalMoves.some(...) of move(): is there a cached move from-to, and
\* does the scan set enPassant before it stops at the first match?
isLegalMove(t, fromPos, toPos) ==
  \E i \in 1..Len(t.currLegalMoves) :
    /\ isSamePosition(t.currLegalMoves[i].from, fromPos)
    /\ isSamePosition(t.currLegalMoves[i].to, toPos)

firstMatchEnPassant(t, fromPos, toPos) ==
  LET matches == {i \in 1..Len(t.currLegalMoves) :
                    /\ isSamePosition(t.currLegalMoves[i].from, fromPos)
                    /\ isSamePosition(t.currLegalMoves[i].to, toPos)}
      first == CHOOSE i \in matches : \A j \in matches : i <= j
  IN t.currLegalMoves[first].enPassant

\* The part of move() after the legality test (lines 911-981).
moveApply(t, piece, targetPiece, fromPos, toPos, fromMove, toMove, promotion, enPassant) ==
  LET attacking == targetPiece # Null
      takesEnPassant == t.enPassantable # NoPos /\ enPassant
      isPawn == IsPawn(t.pieces[piece])
      lastRank == IF t.playingColor = "w" THEN 0 ELSE 7
      hasPromoted == isPawn /\ toPos.y = lastRank
      opponentColor == getOppositeColor(t.playingColor)
  IN Bind(setSquare(t, toPos, piece), LAMBDA t1 :
     Bind(setSquare(t1, fromPos, Null), LAMBDA t2 :
     Bind(IF takesEnPassant THEN getSquare(t2, t2.enPassantable) ELSE targetPiece,
          LAMBDA capture :
     Bind(IF takesEnPassant THEN setSquare(t2, t2.enPassantable, Null) ELSE t2,
          LAMBDA t3 :
     Bind(IF isPawn
          THEN [t3 EXCEPT !.enPassantable =
                  IF ~attacking /\ (toPos.y - fromPos.y = 2 \/ fromPos.y - toPos.y = 2)
                  THEN toPos ELSE NoPos]
          ELSE t3,
          LAMBDA t4 :
     Bind(IF hasPromoted
          THEN Bind(PromotionChessPieceFactoryCreate(t4, promotion, toPos),
                    LAMBDA c : setSquare(c, toPos, Len(c.pieces)))
          ELSE t4,
          LAMBDA t5 :
     Bind(generateLegalMoves(t5, opponentColor), LAMBDA legal :
       IF getKingPosition(legal.t, opponentColor) = NoPos
       THEN Throw(legal.t, "King not found")
       ELSE
       Bind(inCheck(legal.t, opponentColor), LAMBDA check :
       LET opponentLegalMoves == legal.moves
           mate == Len(opponentLegalMoves) = 0 /\ check
           draw == Len(opponentLegalMoves) = 0 /\ ~check
       IN Bind([legal.t EXCEPT !.check = IF check THEN opponentColor ELSE None],
               LAMBDA t6 :
          Bind(pushPieceHistory(t6, piece, fromPos), LAMBDA t7 :
          Bind([t7 EXCEPT !.history = Append(@,
                  [from |-> fromPos, to |-> toPos, capture |-> capture,
                   promotion |-> IF hasPromoted THEN piece ELSE Null,
                   castling |-> Null,
                   lan |-> generateLanFromMove(
                     [piece |-> t7.pieces[piece],
                      from |-> fromMove,
                      to |-> toMove,
                      capture |-> capture # Null,
                      promotion |-> IF hasPromoted THEN promotion ELSE None,
                      enPassant |-> enPassant,
                      check |-> check,
                      mate |-> mate])])],
               LAMBDA t8 :
            Return(handleNextTurn(t8, mate, draw, opponentLegalMoves)))))))))))))

\* The part of move() after its game-over test (lines 850-909).
moveChecked(t, from, to, promotionArg) ==
  LET promotion == IF promotionArg = Omitted THEN "Q" ELSE promotionArg
      fromParsed == getPositionFromMove(from.s)
      toParsed == getPositionFromMove(to.s)
      fromMove == IF IsString(from) THEN Join(from.s) ELSE getMoveFromPosition(from)
      toMove == IF IsString(to) THEN Join(to.s) ELSE getMoveFromPosition(to)
  IN IF IsString(from) /\ fromParsed.error # ""
     THEN ThrowWith(t, fromParsed.error, fromParsed.arg)
     ELSE IF IsString(to) /\ toParsed.error # ""
     THEN ThrowWith(t, toParsed.error, toParsed.arg)
     ELSE
     Bind(IF IsString(from) THEN fromParsed.pos ELSE from, LAMBDA fromPos :
     Bind(IF IsString(to) THEN toParsed.pos ELSE to, LAMBDA toPos :
       IF isPositionOutOfBounds(fromPos) \/ isPositionOutOfBounds(toPos)
       THEN Throw(t, "Invalid move = out of bounds")
       ELSE
       LET piece == getSquare(t, fromPos)
           targetPiece == getSquare(t, toPos)
       IN IF piece = Null THEN Throw(t, "Invalid move = no piece")
          ELSE IF t.pieces[piece].color # t.playingColor
          THEN Throw(t, "Invalid move = not playing color")
          ELSE IF targetPiece # Null /\ t.pieces[targetPiece].color = t.playingColor
          THEN Throw(t, "Invalid move = cannot move to friendly piece")
          ELSE IF targetPiece # Null /\ IsKing(t.pieces[targetPiece])
          THEN Throw(t, "Invalid move = King cannot be captured")
          ELSE IF /\ IsKing(t.pieces[piece])
                  /\ fromPos.y = toPos.y
                  /\ (toPos.x - fromPos.x = 2 \/ fromPos.x - toPos.x = 2)
          THEN handleCastling(t, piece, fromPos, toPos)
          ELSE IF ~isLegalMove(t, fromPos, toPos)
          THEN ThrowWith(t, "Invalid move = ", fromMove \o "-" \o toMove)
          ELSE moveApply(t, piece, targetPiece, fromPos, toPos, fromMove, toMove,
                         promotion, firstMatchEnPassant(t, fromPos, toPos))))

\* A faulty variant of move() without the game-over test; C4 tells the two
\* apart.
moveIgnoringGameOver(t, from, to, promotionArg) ==
  moveChecked(t, from, to, promotionArg)

\* move(from, to, promotion = "Q")
move(t, from, to, promotionArg) ==
  IF t.gameOver # None THEN Throw(t, "Invalid move = GameOver")
  ELSE moveChecked(t, from, to, promotionArg)

\* The promoted piece of an undone promotion is referenced by nothing any
\* more (garbage); it is the newest object, and leaves the object table.
dropUnreferenced(t, lastMove, movedPiece) ==
  IF lastMove.promotion # Null /\ movedPiece = Len(t.pieces)
  THEN [t EXCEPT !.pieces = Pop(@)]
  ELSE t

\* The part of undo() after the board is restored (lines 1029-1040).
undoFinish(t) ==
  Bind(IF t.gameOver = None THEN togglePlayingColor(t) ELSE t, LAMBDA t1 :
    IF getKingPosition(t1, t1.playingColor) = NoPos
    THEN Throw(t1, "King not found")
    ELSE
    Bind([t1 EXCEPT !.check =
            IF inCheck(t1, t1.playingColor) THEN t1.playingColor ELSE None],
         LAMBDA t2 :
    Bind([t2 EXCEPT !.gameOver = None], LAMBDA t3 :
    Bind(generateLegalMoves(t3, t3.playingColor), LAMBDA legal :
      Return([legal.t EXCEPT !.currLegalMoves = legal.moves])))))

\* A faulty variant of undoCastling that leaves the rook's history as it
\* is; C29 tells the two apart.
undoCastlingKeepsHistory(t, lastMove) ==
  LET rookHistory == t.pieces[lastMove.castling].history
  IN IF Len(rookHistory) = 0
     THEN Throw(t, "Invalid undo = unexpected castling error")
     ELSE Bind(setSquare(t, t.pieces[lastMove.castling].position, Null),
               LAMBDA t6 :
          Bind(setSquare(t6, rookHistory[Len(rookHistory)], lastMove.castling),
               LAMBDA t7 : undoFinish(t7)))

\* The castling part of undo() (lines 1018-1027).
undoCastling(t, lastMove) ==
  LET rookHistory == t.pieces[lastMove.castling].history
  IN IF Len(rookHistory) = 0
     THEN Throw(t, "Invalid undo = unexpected castling error")
     ELSE LET rookFrom == rookHistory[Len(rookHistory)]
          IN Bind(popPieceHistory(t, lastMove.castling), LAMBDA t5 :
             Bind(setSquare(t5, t5.pieces[lastMove.castling].position, Null),
                  LAMBDA t6 :
             Bind(setSquare(t6, rookFrom, lastMove.castling), LAMBDA t7 :
               undoFinish(t7))))

\* A faulty variant of undoSource that puts the pawn back without popping
\* its history; C28 tells the two apart.
undoSourceKeepsHistory(t, lastMove, movedPiece) ==
  setSquare(t, lastMove.from,
            IF lastMove.promotion # Null THEN lastMove.promotion ELSE movedPiece)

\* undo(): what goes back on the source square (lines 1001-1006).
undoSource(t, lastMove, movedPiece) ==
  IF lastMove.promotion # Null
  THEN popPieceHistory(setSquare(t, lastMove.from, lastMove.promotion),
                       lastMove.promotion)
  ELSE setSquare(t, lastMove.from, movedPiece)

\* undo() after the ledger's last entry was popped (lines 991-1040).
undoEntry(t0, lastMove) ==
     Bind(getSquare(t0, lastMove.to), LAMBDA movedPiece :
       IF movedPiece = Null
       THEN Throw(t0, "Invalid undo = unexpected nullish piece")
       ELSE
       Bind(popPieceHistory(t0, movedPiece), LAMBDA t1 :
       Bind(undoSource(t1, lastMove, movedPiece), LAMBDA t2 :
       Bind(IF lastMove.capture # Null
            THEN LET capturePosition == t2.pieces[lastMove.capture].position
                 IN IF isSamePosition(lastMove.to, capturePosition)
                    THEN setSquare(t2, lastMove.to, lastMove.capture)
                    ELSE [setSquare(setSquare(t2, capturePosition, lastMove.capture),
                                    lastMove.to, Null)
                            EXCEPT !.enPassantable = capturePosition]
            ELSE setSquare(t2, lastMove.to, Null),
            LAMBDA t3 :
       Bind(dropUnreferenced(t3, lastMove, movedPiece), LAMBDA t4 :
         IF lastMove.castling # Null
         THEN undoCastling(t4, lastMove)
         ELSE undoFinish(t4))))))

\* A faulty variant of undo() that returns silently on an empty ledger;
\* C22 tells the two apart.
undoSilent(t) ==
  IF Len(t.history) = 0 THEN Return(t)
  ELSE Bind([t EXCEPT !.history = Pop(@)], LAMBDA t0 :
         undoEntry(t0, t.history[Len(t.history)]))

\* A faulty variant of undo() that reads the last entry without popping
\* it; C23 tells the two apart.
undoKeepsEntry(t) ==
  IF Len(t.history) = 0 THEN Throw(t, "Invalid undo = clean history")
  ELSE undoEntry(t, t.history[Len(t.history)])

undo(t) ==
  IF Len(t.history) = 0 THEN Throw(t, "Invalid undo = clean history")
  ELSE Bind([t EXCEPT !.history = Pop(@)], LAMBDA t0 :
         undoEntry(t0, t.history[Len(t.history)]))

getLegalMoves(t, from) ==
  SelectSeq(t.currLegalMoves, LAMBDA m : isSamePosition(m.from, from))

----------------------------------------------------------------------------
(* Construction.  A position string is modelled after its two splits: the  *)
(* 8 rank strings of the placement field, each a sequence of characters,   *)
(* and the colour field.                                                   *)

NewEngine(color) ==
  [board |-> [y \in 0..(RANK_LENGTH - 1) |-> [x \in 0..(RANK_LENGTH - 1) |-> Null]],
   pieces |-> <<>>,
   history |-> <<>>,
   gameOver |-> None,
   whiteKingPosition |-> NoPos,
   blackKingPosition |-> NoPos,
   playingColor |-> color,
   check |-> None,
   currLegalMoves |-> <<>>,
   enPassantable |-> NoPos]

\* The inner loop of the constructor over x, for rank y; fenRank[x] past the
\* end of the string is undefined, whose Number is NaN.
RECURSIVE constructRank(_, _, _, _)
constructRank(t, fenRank, y, x) ==
  IF x >= RANK_LENGTH THEN Return(t)
  ELSE IF x + 1 <= Len(fenRank) /\ fenRank[x + 1] \in PieceValues
  THEN LET position == Pos(y, x)
       IN Bind(ChessPieceFactoryCreate(t, fenRank[x + 1], position), LAMBDA c :
          Bind(setSquare(c, position, Len(c.pieces)), LAMBDA t1 :
            constructRank(t1, fenRank, y, x + 1)))
  ELSE LET charNum == IF x + 1 <= Len(fenRank) THEN NumberOf(fenRank[x + 1]) ELSE -1
       IN IF charNum < 1 \/ charNum > 8
          THEN Throw(t, "Invalid empty squares")
          ELSE constructRank(t, fenRank, y, x + charNum + 1)

RECURSIVE constructRanks(_, _, _)
constructRanks(t, fenPieces, y) ==
  IF y >= RANK_LENGTH THEN Return(t)
  ELSE IF y + 1 > Len(fenPieces) THEN Throw(t, "TypeError")
  ELSE Bind(constructRank(t, fenPieces[y + 1], y, 0), LAMBDA r :
         IF r.error # "" THEN r ELSE constructRanks(r.t, fenPieces, y + 1))

\* A pawn with an empty history whose forward square is off the board makes
\* Pawn.generateMoves read board[-1] or board[8]: a TypeError.
pawnReadsOffBoard(t) ==
  \E ref \in 1..Len(t.pieces) :
    /\ IsPawn(t.pieces[ref])
    /\ Len(t.pieces[ref].history) = 0
    /\ isOutOfBounds(t.pieces[ref].position.y
                     + (IF t.pieces[ref].color = "w" THEN -1 ELSE 1))

\* constructor(fen): fen = [pieces: the rank strings, color: the colour field]
constructor(fen) ==
  Bind(constructRanks(NewEngine(fen.color), fen.pieces, 0), LAMBDA placed :
    IF placed.error # "" THEN placed
    ELSE IF pawnReadsOffBoard(placed.t) THEN Throw(placed.t, "TypeError")
    ELSE IF getKingPosition(placed.t, fen.color) = NoPos
    THEN Throw(placed.t, "King not found")
    ELSE
    Bind(generateLegalMoves(placed.t, fen.color), LAMBDA legal :
    Bind(inCheck(legal.t, fen.color), LAMBDA check :
      LET legalMoves == legal.moves
          t1 == [legal.t EXCEPT !.check = IF check THEN fen.color ELSE None]
          t2 == IF Len(legalMoves) = 0
                THEN IF check
                     THEN [t1 EXCEPT !.gameOver =
                             IF fen.color = "w" THEN "1-0" ELSE "0-1"]
                     ELSE [t1 EXCEPT !.gameOver = "0-0"]
                ELSE t1
      IN Return([t2 EXCEPT !.currLegalMoves = legalMoves]))))

----------------------------------------------------------------------------
(* The engine as a state machine: one engine instance, constructed from    *)
(* one of the position strings below and then driven by move() and undo(). *)

VARIABLES board, pieces, history, gameOver, whiteKingPosition,
          blackKingPosition, playingColor, check, currLegalMoves,
          enPassantable,
          game,   \* the driver's game: position string and move() arguments
          last,   \* the last call: its operation, the error it threw and,
                  \* for a move that promoted, the promotion argument
          before  \* the engine object when the last call was made

engineVars == <<board, pieces, history, gameOver, whiteKingPosition,
                blackKingPosition, playingColor, check, currLegalMoves,
                enPassantable>>

vars == <<board, pieces, history, gameOver, whiteKingPosition,
          blackKingPosition, playingColor, check, currLegalMoves,
          enPassantable, game, last, before>>

\* The engine object in the current state.
This ==
  [board |-> board, pieces |-> pieces, history |-> history,
   gameOver |-> gameOver, whiteKingPosition |-> whiteKingPosition,
   blackKingPosition |-> blackKingPosition, playingColor |-> playingColor,
   check |-> check, currLegalMoves |-> currLegalMoves,
   enPassantable |-> enPassantable]

Becomes(t) ==
  /\ board' = t.board
  /\ pieces' = t.pieces
  /\ history' = t.history
  /\ gameOver' = t.gameOver
  /\ whiteKingPosition' = t.whiteKingPosition
  /\ blackKingPosition' = t.blackKingPosition
  /\ playingColor' = t.playingColor
  /\ check' = t.check
  /\ currLegalMoves' = t.currLegalMoves
  /\ enPassantable' = t.enPassantable

\* The engine's fields are those of t.
Holds(t) ==
  /\ board = t.board
  /\ pieces = t.pieces
  /\ history = t.history
  /\ gameOver = t.gameOver
  /\ whiteKingPosition = t.whiteKingPosition
  /\ blackKingPosition = t.blackKingPosition
  /\ playingColor = t.playingColor
  /\ check = t.check
  /\ currLegalMoves = t.currLegalMoves
  /\ enPassantable = t.enPassantable

\* The longest ledger the driver builds.
MaxPly == 4

E8 == <<"8">>

\* rnbqkbnr/pppppppp/8/8/8/8/PPPPPPPP/RNBQKBNR w KQkq - 0 1
DEFAULT_FEN ==
  [pieces |-> << <<"r", "n", "b", "q", "k", "b", "n", "r">>,
                 <<"p", "p", "p", "p", "p", "p", "p", "p">>,
                 E8, E8, E8, E8,
                 <<"P", "P", "P", "P", "P", "P", "P", "P">>,
                 <<"R", "N", "B", "Q", "K", "B", "N", "R">> >>,
   color |-> "w"]

Sq(file, rank) == Str(<<file, rank>>)

\* The position strings below are written the way the constructor reads
\* them: the character at index x of a rank string describes file x, and a
\* digit d there leaves files x..x+d empty ("-" marks a character that is
\* never read).  After each: the position in standard notation.

\* r3k2r/8/8/8/8/8/8/R3K2R w
CastlingFen ==
  [pieces |-> << <<"r", "2", "-", "-", "k", "1", "-", "r">>,
                 E8, E8, E8, E8, E8, E8,
                 <<"R", "2", "-", "-", "K", "1", "-", "R">> >>,
   color |-> "w"]

\* 4r2k/8/8/8/8/8/8/RN2K2R w  (white is in check on the e-file)
CheckedFen ==
  [pieces |-> << <<"3", "-", "-", "-", "r", "1", "-", "k">>,
                 E8, E8, E8, E8, E8, E8,
                 <<"R", "N", "1", "-", "K", "1", "-", "R">> >>,
   color |-> "w"]

\* k7/8/8/8/8/7p/6p1/4K2R b
PawnsFen ==
  [pieces |-> << <<"k", "7">>,
                 E8, E8, E8, E8,
                 <<"6", "-", "-", "-", "-", "-", "-", "p">>,
                 <<"5", "-", "-", "-", "-", "-", "p", "1">>,
                 <<"3", "-", "-", "-", "K", "1", "-", "R">> >>,
   color |-> "b"]

\* 7k/2p5/8/KP5r/8/8/8/8 b
PinFen ==
  [pieces |-> << <<"6", "-", "-", "-", "-", "-", "-", "k">>,
                 <<"1", "-", "p", "4">>,
                 E8,
                 <<"K", "P", "4", "-", "-", "-", "-", "r">>,
                 E8, E8, E8, E8 >>,
   color |-> "b"]

\* k7/8/8/8/3P4/8/4P3/K7 w
StaleFen ==
  [pieces |-> << <<"k", "7">>,
                 E8, E8, E8,
                 <<"2", "-", "-", "P", "4">>,
                 E8,
                 <<"3", "-", "-", "-", "P", "3">>,
                 <<"K", "7">> >>,
   color |-> "w"]

\* k7/8/K7/8/8/8/8/2Q5 w
WhiteEndFen ==
  [pieces |-> << <<"k", "7">>, E8, <<"K", "7">>, E8, E8, E8, E8,
                 <<"1", "-", "Q", "4">> >>,
   color |-> "w"]

\* 2q5/8/8/8/8/k7/8/K7 b
BlackEndFen ==
  [pieces |-> << <<"1", "-", "q", "4">>, E8, E8, E8, E8, <<"k", "7">>, E8,
                 <<"K", "7">> >>,
   color |-> "b"]

\* 4rkr1/R7/8/8/8/6P1/4P3/4K2R w
CastleMateFen ==
  [pieces |-> << <<"3", "-", "-", "-", "r", "k", "r", "1">>,
                 <<"R", "7">>,
                 E8, E8, E8,
                 <<"5", "-", "-", "-", "-", "-", "P", "1">>,
                 <<"3", "-", "-", "-", "P", "3">>,
                 <<"3", "-", "-", "-", "K", "1", "-", "R">> >>,
   color |-> "w"]

\* 8/8/8/5k2/3P4/8/4P3/K7 w
KingTakenFen ==
  [pieces |-> << E8, E8, E8,
                 <<"4", "-", "-", "-", "-", "k", "1">>,
                 <<"2", "-", "-", "P", "3">>,
                 E8,
                 <<"3", "-", "-", "-", "P", "2">>,
                 <<"K", "6">> >>,
   color |-> "w"]

\* k7/4P3/8/8/8/8/8/K7 w
PromoteFen ==
  [pieces |-> << <<"k", "7">>,
                 <<"3", "-", "-", "-", "P", "3">>,
                 E8, E8, E8, E8, E8,
                 <<"K", "7">> >>,
   color |-> "w"]

\* The games the driver plays: the position string given to the
\* constructor, the arguments it passes to move() as from and to, and the
\* promotion arguments it passes.
Games ==
  << [fen |-> CastlingFen,
      squares |-> {Sq("e", "1"), Sq("f", "1"), Sq("g", "1"), Sq("c", "1"),
                   Sq("e", "8"), Sq("f", "8"), Sq("g", "8"), Sq("c", "8")},
      promotions |-> {Omitted}],
     [fen |-> CheckedFen,
      squares |-> {Sq("e", "1"), Sq("g", "1"), Sq("c", "1"), Sq("f", "1"),
                   Sq("e", "8"), Sq("f", "8")},
      promotions |-> {Omitted}],
     [fen |-> PawnsFen,
      squares |-> {Sq("g", "2"), Sq("h", "1"), Sq("h", "3"), Sq("h", "2"),
                   Sq("e", "1"), Sq("g", "1")},
      promotions |-> {Omitted, "N"}],
     [fen |-> PinFen,
      squares |-> {Sq("c", "7"), Sq("c", "5"), Sq("c", "6"), Sq("b", "5"),
                   Sq("h", "5"), Sq("h", "6"), Sq("a", "5"), Sq("a", "4")},
      promotions |-> {Omitted}],
     [fen |-> StaleFen,
      squares |-> {Sq("e", "2"), Sq("e", "4"), Sq("d", "4"), Sq("e", "5"),
                   Sq("a", "8"), Sq("a", "7")},
      promotions |-> {Omitted}],
     [fen |-> WhiteEndFen,
      squares |-> {Sq("c", "1"), Sq("c", "7"), Sq("c", "8"), Sq("a", "8"),
                   Sq("a", "6"), Str(<<"c", "9">>), Str(<<"i", "1">>),
                   Str(<<"c">>), Pos(7, 8)},
      promotions |-> {Omitted}],
     [fen |-> BlackEndFen,
      squares |-> {Sq("c", "8"), Sq("c", "2"), Sq("c", "1"), Sq("a", "1")},
      promotions |-> {Omitted}],
     [fen |-> CastleMateFen,
      squares |-> {Sq("e", "1"), Sq("g", "1"), Sq("f", "8"), Sq("a", "7")},
      promotions |-> {Omitted}],
     [fen |-> KingTakenFen,
      squares |-> {Sq("e", "2"), Sq("e", "4"), Sq("f", "5"), Sq("d", "4"),
                   Sq("e", "5")},
      promotions |-> {Omitted}],
     [fen |-> PromoteFen,
      squares |-> {Sq("e", "7"), Sq("e", "8"), Sq("a", "8"), Sq("a", "7")},
      promotions |-> {Omitted, "N", "B", "R", "Q"}],
     [fen |-> DEFAULT_FEN,
      squares |-> {Sq("f", "2"), Sq("f", "3"), Sq("e", "7"), Sq("e", "5"),
                   Sq("g", "2"), Sq("g", "4"), Sq("d", "8"), Sq("h", "4")},
      promotions |-> {Omitted}] >>

Init ==
  /\ game \in {Games[i] : i \in 1..Len(Games)}
  /\ \E c \in {constructor(game.fen)} :
        /\ c.error = ""
        /\ board = c.t.board
        /\ pieces = c.t.pieces
        /\ history = c.t.history
        /\ gameOver = c.t.gameOver
        /\ whiteKingPosition = c.t.whiteKingPosition
        /\ blackKingPosition = c.t.blackKingPosition
        /\ playingColor = c.t.playingColor
        /\ check = c.t.check
        /\ currLegalMoves = c.t.currLegalMoves
        /\ enPassantable = c.t.enPassantable
  /\ last = [op |-> "new", error |-> "", promotion |-> Omitted]
  /\ before = This

\* The constructor returned: a constructor that threw leaves no engine
\* object to call move() or undo() on.
Constructed == ~(last.op = "new" /\ last.error # "")

\* A call of move(); a call that would make the ledger longer than MaxPly
\* is not made.
Move(from, to, promotion) ==
  \E t \in {This} : \E r \in {move(t, from, to, promotion)} :
     /\ Constructed
     /\ r.error = "" => Len(history) < MaxPly
     /\ Becomes(r.t)
     /\ last' = [op |-> "move", error |-> r.error,
                 promotion |-> IF r.error = "" /\ Len(r.t.history) > 0
                                  /\ r.t.history[Len(r.t.history)].promotion # Null
                               THEN promotion ELSE Omitted]
     /\ before' = t
     /\ UNCHANGED game

\* A call of undo().
Undo ==
  \E t \in {This} : \E r \in {undo(t)} :
     /\ Constructed
     /\ Becomes(r.t)
     /\ last' = [op |-> "undo", error |-> r.error, promotion |-> Omitted]
     /\ before' = t
     /\ UNCHANGED game

Next ==
  \/ \E from \in game.squares, to \in game.squares,
        promotion \in game.promotions : Move(from, to, promotion)
  \/ Undo

Spec == Init /\ [][Next]_vars

\* ---------------------------------------------------------------------
\* Construction from position strings the driver assembles: the rank-8
\* field is any string of at most MaxRankLen characters of RankChars, the
\* other fields are fixed.  A constructor that throws is a state of its
\* own, with the error in last.error and no further call.

MaxRankLen == 3

RankChars == {"k", "3", "4", "7", "8"}

RankStrings ==
  UNION {[1..n -> RankChars] : n \in 1..MaxRankLen}

\* <rank 8>/8/8/8/8/8/8/K7 w
RankFen(rank8) ==
  [pieces |-> << rank8, E8, E8, E8, E8, E8, E8, <<"K", "7">> >>,
   color |-> "w"]

\* k7/8/KQ6/8/8/8/8/8 b
StalemateFen ==
  [pieces |-> << <<"k", "7">>, E8, <<"K", "Q", "6">>, E8, E8, E8, E8, E8 >>,
   color |-> "b"]

\* k7/8/K7/Q7/8/8/8/8 w
NearStalemateFen ==
  [pieces |-> << <<"k", "7">>, E8, <<"K", "7">>, <<"Q", "7">>, E8, E8, E8,
                 E8 >>,
   color |-> "w"]

\* k7/Q7/K7/8/8/8/8/8 b
MateFen ==
  [pieces |-> << <<"k", "7">>, <<"Q", "7">>, <<"K", "7">>, E8, E8, E8, E8, E8 >>,
   color |-> "b"]

\* k7/8/KQ6/8/8/8/8/8 w
NearMateFen ==
  [pieces |-> << <<"k", "7">>, E8, <<"K", "Q", "6">>, E8, E8, E8, E8, E8 >>,
   color |-> "w"]

\* k7/8/8/8/8/8/8/2--K2--R w: the white king on d1 and a rook on h1 (a
\* digit read at string index i makes index i + d + 1 the next one read, so
\* the characters in between are never read).
OffFileFen ==
  [pieces |-> << <<"k", "7">>, E8, E8, E8, E8, E8, E8,
                 <<"2", "-", "-", "K", "2", "-", "-", "R">> >>,
   color |-> "w"]

Builds ==
  {[fen |-> RankFen(rank8),
    squares |-> {Sq("a", "1"), Sq("a", "2"), Sq("b", "1")},
    promotions |-> {Omitted}] : rank8 \in RankStrings}
  \cup
  {[fen |-> StalemateFen,
    squares |-> {Sq("a", "8"), Sq("a", "7"), Sq("b", "6")},
    promotions |-> {Omitted}],
   [fen |-> NearStalemateFen,
    squares |-> {Sq("a", "5"), Sq("b", "6"), Sq("a", "8"), Sq("b", "8")},
    promotions |-> {Omitted}],
   [fen |-> MateFen,
    squares |-> {Sq("a", "8"), Sq("a", "7"), Sq("b", "8")},
    promotions |-> {Omitted}],
   [fen |-> NearMateFen,
    squares |-> {Sq("b", "6"), Sq("a", "7"), Sq("a", "8")},
    promotions |-> {Omitted}],
   [fen |-> OffFileFen,
    squares |-> {Sq("d", "1"), Sq("f", "1"), Sq("b", "1"), Sq("a", "8"),
                 Sq("a", "7")},
    promotions |-> {Omitted}]}

InitBuild ==
  /\ game \in Builds
  /\ \E c \in {constructor(game.fen)} :
        /\ Holds(c.t)
        /\ last = [op |-> "new", error |-> c.error, promotion |-> Omitted]
  /\ before = This

SpecBuild == InitBuild /\ [][Next]_vars

-----------------------------------------------------------------------------
(* Properties.  They are stated on the state the last call left behind,    *)
(* the engine object `before` it was made on, and the ledger entry a       *)
(* successful move() appended.                                             *)

Succeeded == last.op = "move" /\ last.error = ""
Entry == history[Len(history)]
Mover == before.playingColor
Castled == Succeeded /\ Entry.castling # Null

\* Chess geometry, stated on the board alone and not through the engine's
\* move generators.
Occupant(t, y, x) ==
  IF isOutOfBounds(y) \/ isOutOfBounds(x) THEN None
  ELSE IF t.board[y][x] = Null THEN None
  ELSE t.pieces[t.board[y][x]].type

Kind(color, white, black) == IF color = "w" THEN white ELSE black

RayReaches(t, sq, d, kinds) ==
  \E n \in 1..(RANK_LENGTH - 1) :
    /\ Occupant(t, sq.y + n * d[1], sq.x + n * d[2]) \in kinds
    /\ \A m \in 1..(n - 1) : Occupant(t, sq.y + m * d[1], sq.x + m * d[2]) = None

\* Does a piece of `color` attack square sq?  A pawn attacks the two squares
\* diagonally ahead of it, whether or not they are occupied.
Attacks(t, color, sq) ==
  LET ahead == IF color = "w" THEN -1 ELSE 1
  IN \/ \E dx \in {-1, 1} :
          Occupant(t, sq.y - ahead, sq.x + dx) = Kind(color, "P", "p")
     \/ \E i \in 1..Len(KnightOffsets) :
          Occupant(t, sq.y + KnightOffsets[i][1], sq.x + KnightOffsets[i][2])
            = Kind(color, "N", "n")
     \/ \E i \in 1..Len(KingOffsets) :
          Occupant(t, sq.y + KingOffsets[i][1], sq.x + KingOffsets[i][2])
            = Kind(color, "K", "k")
     \/ \E i \in 1..Len(RookDirections) :
          RayReaches(t, sq, RookDirections[i],
                     {Kind(color, "R", "r"), Kind(color, "Q", "q")})
     \/ \E i \in 1..Len(BishopDirections) :
          RayReaches(t, sq, BishopDirections[i],
                     {Kind(color, "B", "b"), Kind(color, "Q", "q")})

KingSquares(t, color) ==
  {sq \in {Pos(y, x) : y \in 0..7, x \in 0..7} :
     Occupant(t, sq.y, sq.x) = Kind(color, "K", "k")}

Exposed(t, color) ==
  \E sq \in KingSquares(t, color) : Attacks(t, getOppositeColor(color), sq)

\* What C1 lists: occupancy, side to move, en-passant target, check and
\* terminal-outcome indicators, each piece's move-history length, and the
\* kings' coordinates.
Observable(t) ==
  [board |-> t.board,
   playingColor |-> t.playingColor,
   enPassantable |-> t.enPassantable,
   check |-> t.check,
   gameOver |-> t.gameOver,
   moved |-> [i \in DOMAIN t.pieces |-> Len(t.pieces[i].history)],
   whiteKingPosition |-> t.whiteKingPosition,
   blackKingPosition |-> t.blackKingPosition]

\* C1: after any successful move(), an immediate undo() succeeds and leaves
\* board occupancy, side to move, en-passant target, check indicator,
\* terminal-outcome indicator, every piece's move-history length and both
\* kings' coordinates exactly as they were before the move.
C1_UndoRestoresPosition ==
  Succeeded =>
    \A t \in {This} : \A r \in {undo(t)} :
       r.error = "" /\ Observable(r.t) = Observable(before)

\* C2: after every successful move(), the king of the colour that just
\* moved is not attacked by any opposing piece.
C2_MoverKingNotAttacked ==
  Succeeded => \A t \in {This} : ~Exposed(t, Mover)

\* C3: a move() that fails leaves every part of the engine state, the
\* legal-move cache and the ledger included, exactly as it was.
C3_FailedMoveChangesNothing ==
  (last.op = "move" /\ last.error # "") => This = before

C3_witness ==
  /\ last.op = "move"
  /\ last.error = "Invalid castling = blocked by attack"

\* C4: while the terminal-outcome indicator is set, every move(), whatever
\* its arguments, fails with the game-over error and changes nothing, so
\* the indicator stays set.
C4_GameOverRejectsMoves ==
  (last.op = "move" /\ before.gameOver # None) =>
    /\ last.error = "Invalid move = GameOver"
    /\ This = before

C4_witness ==
  /\ last.op = "move"
  /\ before.gameOver = "0-1"
  /\ last.error = "Invalid move = GameOver"
  /\ gameOver = "0-1"

TransitSquares(from, to) ==
  {Pos(from.y, (from.x + to.x) \div 2), Pos(from.y, to.x)}

\* C6: no castling succeeds when one of the two squares the king crosses
\* or lands on is attacked by an opposing piece, an opposing pawn that
\* attacks the empty square diagonally included.
C6_NoCastlingThroughAttack ==
  Castled =>
    \A sq \in TransitSquares(Entry.from, Entry.to) :
      ~Attacks(before, getOppositeColor(Mover), sq)

\* The squares named by the driver's well-formed inputs.
RequestedSquares ==
  {getPositionFromMove(sq.s).pos :
     sq \in {a \in game.squares :
               IsString(a) /\ getPositionFromMove(a.s).error = ""}}

\* move(from, to) would reach the castling handler: the game is ongoing and
\* a king of the side to move is asked to go two files along its rank to a
\* square that holds neither a friendly piece nor a king.
IsCastlingRequest(t, from, to) ==
  /\ t.gameOver = None
  /\ Occupant(t, from.y, from.x) = Kind(t.playingColor, "K", "k")
  /\ from.y = to.y
  /\ (to.x - from.x = 2 \/ from.x - to.x = 2)
  /\ Occupant(t, to.y, to.x) \notin
       Kind(t.playingColor, WhitePieces, BlackPieces) \cup {"K", "k"}

Corner(from, to) == Pos(from.y, IF to.x > from.x THEN 7 ELSE 0)

Between(a, b) ==
  {Pos(a.y, x) : x \in {x \in 0..7 : (a.x < x /\ x < b.x) \/ (b.x < x /\ x < a.x)}}

\* The error of the first unmet castling precondition, in the order
\* king unmoved, rook present and unmoved, path empty, not in check,
\* transit squares not attacked; "" when all five hold.
FirstUnmet(t, from, to) ==
  LET corner == Corner(from, to)
      rook == t.board[corner.y][corner.x]
      opponent == getOppositeColor(t.playingColor)
  IN IF Len(t.pieces[t.board[from.y][from.x]].history) # 0
     THEN "Invalid castling = not first King move"
     ELSE IF \/ Occupant(t, corner.y, corner.x) # Kind(t.playingColor, "R", "r")
             \/ Len(t.pieces[rook].history) # 0
     THEN "Invalid castling = not first Rook move"
     ELSE IF \E sq \in Between(from, corner) : Occupant(t, sq.y, sq.x) # None
     THEN "Invalid castling = blocked by piece"
     ELSE IF Attacks(t, opponent, from)
     THEN "Invalid castling = King in check"
     ELSE IF \E sq \in TransitSquares(from, to) : Attacks(t, opponent, sq)
     THEN "Invalid castling = blocked by attack"
     ELSE ""

\* C7: a castling request fails with the error of the first unmet
\* precondition, in the order king unmoved, rook present and unmoved, path
\* empty, not in check, transit squares not attacked, and succeeds only if
\* all five hold.
C7_CastlingPreconditionOrder ==
  \A t \in {This} : \A from \in RequestedSquares, to \in RequestedSquares :
    IsCastlingRequest(t, from, to) =>
      move(t, from, to, Omitted).error = FirstUnmet(t, from, to)

\* C8: the piece a successful castling relocates from the corner is a rook
\* of the castling side's own colour that had never moved.
C8_CastlingRookIsOwnRook ==
  Castled =>
    /\ before.pieces[Entry.castling].type = Kind(Mover, "R", "r")
    /\ Len(before.pieces[Entry.castling].history) = 0

EnPassantFlagged ==
  /\ Succeeded
  /\ Entry.castling = Null
  /\ firstMatchEnPassant(before, Entry.from, Entry.to)

\* C10: a move made as an en-passant capture removes an opposing pawn from
\* the square that pawn stands on, which is not the capturing pawn's
\* destination (that square was empty), and undo() puts the captured pawn
\* back on its own square and the capturing pawn back on its source.
C10_EnPassantCapture ==
  EnPassantFlagged =>
    LET e == Entry
    IN /\ e.capture # Null
       /\ before.pieces[e.capture].type = Kind(Mover, "p", "P")
       /\ before.board[e.to.y][e.to.x] = Null
       /\ LET at == before.pieces[e.capture].position
          IN /\ at # e.to
             /\ before.board[at.y][at.x] = e.capture
             /\ board[at.y][at.x] = Null
             /\ \A t \in {This} : \A r \in {undo(t)} :
                  /\ r.error = ""
                  /\ r.t.board[at.y][at.x] = e.capture
                  /\ r.t.board[e.from.y][e.from.x] = before.board[e.from.y][e.from.x]
                  /\ r.t.board[e.to.y][e.to.x] = Null

\* The piece the last successful move() moved (for castling, the king).
Moved == before.board[Entry.from.y][Entry.from.x]

\* The last call was a successful pawn two-square advance.
DoubleStep ==
  /\ Succeeded
  /\ Entry.castling = Null
  /\ IsPawn(before.pieces[Moved])
  /\ (Entry.to.y - Entry.from.y = 2 \/ Entry.from.y - Entry.to.y = 2)

\* C11: after any successful move() that is not a pawn two-square advance,
\* every non-pawn move and every castling included, the en-passant target
\* is empty.
C11_TargetClearedByOtherMoves ==
  (Succeeded /\ ~DoubleStep) => enPassantable = NoPos

\* C12: a pawn can be captured en passant only by the move that immediately
\* follows its two-square advance: when a move made as an en-passant
\* capture removes a pawn, the ledger entry just before it is that pawn's
\* two-square advance.
C12_EnPassantOnlyNextPly ==
  (EnPassantFlagged /\ Entry.capture # Null) =>
    /\ Len(history) >= 2
    /\ LET advance == history[Len(history) - 1]
       IN /\ advance.castling = Null
          /\ advance.to = before.pieces[Entry.capture].position
          /\ before.board[advance.to.y][advance.to.x] = Entry.capture
          /\ IsPawn(before.pieces[Entry.capture])
          /\ (advance.to.y - advance.from.y = 2 \/ advance.from.y - advance.to.y = 2)

\* The last call was a successful pawn move that ended on the last rank for
\* the pawn's colour.
Promoting ==
  /\ Succeeded
  /\ Entry.castling = Null
  /\ IsPawn(before.pieces[Moved])
  /\ Entry.to.y = Kind(Mover, 0, RANK_LENGTH - 1)

BlackLetter == [N |-> "n", B |-> "b", R |-> "r", Q |-> "q"]

\* C13: after a pawn's move to its last rank the destination holds a newly
\* created piece of the mover's colour and of the requested kind, a queen
\* when no kind is given, and the pawn is on no square of the board.
C13_Promotion ==
  Promoting =>
    LET new == board[Entry.to.y][Entry.to.x]
        kind == IF last.promotion = Omitted THEN "Q" ELSE last.promotion
    IN /\ new # Null
       /\ new \notin DOMAIN before.pieces
       /\ pieces[new].color = Mover
       /\ pieces[new].type = Kind(Mover, kind, BlackLetter[kind])
       /\ pieces[new].position = Entry.to
       /\ \A y \in 0..7, x \in 0..7 : board[y][x] # Moved

C13_witness ==
  /\ Promoting
  /\ last.promotion = "B"
  /\ pieces[board[Entry.to.y][Entry.to.x]].type = "B"

\* C14: in every state in which the game is not over, the legal-move cache
\* is what the legality filter yields for the current side to move on the
\* current board and en-passant target.
C14_CacheIsCurrent ==
  gameOver = None =>
    \A t \in {This} : currLegalMoves = generateLegalMoves(t, playingColor).moves

Squares == {Pos(y, x) : y \in 0..(RANK_LENGTH - 1), x \in 0..(RANK_LENGTH - 1)}

\* C15: in every state no piece occupies two squares, and the coordinate
\* stored in every piece on the board is the square that holds it (a square
\* holds one reference, so at most one piece).
C15_BoardAndCoordinatesAgree ==
  /\ \A sq \in Squares :
       board[sq.y][sq.x] # Null =>
         /\ board[sq.y][sq.x] \in DOMAIN pieces
         /\ pieces[board[sq.y][sq.x]].position = sq
  /\ \A a \in Squares, b \in Squares :
       (a # b /\ board[a.y][a.x] # Null) => board[a.y][a.x] # board[b.y][b.x]

\* An en-passant capture has been undone: the captured pawn is back on a
\* square that is not the capturing pawn's destination.
C15_witness ==
  /\ last.op = "undo" /\ last.error = ""
  /\ before.history[Len(before.history)].capture # Null
  /\ before.history[Len(before.history)].lan = "b5xc6 e.p."
  /\ board[3][2] = before.history[Len(before.history)].capture

\* C16: in every state the cached white-king and black-king coordinates
\* each name a square that holds the king of that colour.
C16_KingCacheNamesKing ==
  \A t \in {This} :
    /\ whiteKingPosition # NoPos
    /\ Occupant(t, whiteKingPosition.y, whiteKingPosition.x) = "K"
    /\ blackKingPosition # NoPos
    /\ Occupant(t, blackKingPosition.y, blackKingPosition.x) = "k"

\* The pieces on the board of engine t.
OnBoard(t) == {t.board[sq.y][sq.x] : sq \in Squares} \ {Null}

\* The pieces the last successful move() took off the board; the pawn a
\* promotion replaces is not one of them.
Removed == (OnBoard(before) \ {Entry.promotion}) \ OnBoard(This)

\* C17: a successful move() removes at most one piece from the board, and
\* a removed piece is an opposing piece that is not a king.
C17_OnlyOpposingNonKingRemoved ==
  Succeeded =>
    \A removed \in {Removed} :
      /\ Cardinality(removed) <= 1
      /\ \A piece \in removed :
           /\ before.pieces[piece].color # Mover
           /\ ~IsKing(before.pieces[piece])

\* What a probe must leave alone: the board, every piece's stored
\* coordinate and both cached king coordinates.
Probed(t) ==
  [board |-> t.board,
   position |-> [i \in DOMAIN t.pieces |-> t.pieces[i].position],
   whiteKingPosition |-> t.whiteKingPosition,
   blackKingPosition |-> t.blackKingPosition]

\* C18: on every reachable board and for either colour, computing the
\* legal moves leaves the board, every piece's stored coordinate and both
\* cached king coordinates as they were, after the whole computation and
\* after the probe of each single candidate, kept or discarded.
C18_ProbeRestoresBoard ==
  \A t \in {This} : \A color \in {"w", "b"} :
    /\ Probed(generateLegalMoves(t, color).t) = Probed(t)
    /\ \A candidates \in {generateMoves(t, color)} :
         \A i \in 1..Len(candidates) :
           Probed(simulateMove(t, color, candidates[i]).t) = Probed(t)

\* A position in which the probe discards a capturing candidate and keeps
\* another candidate.
C18_witness ==
  \E t \in {This} : \E candidates \in {generateMoves(t, playingColor)} :
    /\ \E i \in 1..Len(candidates) :
         /\ getSquare(t, candidates[i].to) # Null
         /\ ~simulateMove(t, playingColor, candidates[i]).legal
    /\ \E i \in 1..Len(candidates) :
         simulateMove(t, playingColor, candidates[i]).legal

\* The engine holds the standard initial position: constructed from
\* DEFAULT_FEN, no move in the ledger, no en-passant target.
StandardStart ==
  game.fen = DEFAULT_FEN /\ Len(history) = 0 /\ enPassantable = NoPos

MovesOf(kinds) ==
  {i \in 1..Len(currLegalMoves) :
     Occupant(This, currLegalMoves[i].from.y, currLegalMoves[i].from.x) \in kinds}

\* C19: the standard initial position has White to move and exactly 20
\* legal moves, 16 of pawns and 4 of knights.
C19_TwentyOpeningMoves ==
  StandardStart =>
    /\ playingColor = "w"
    /\ Len(currLegalMoves) = 20
    /\ Cardinality(MovesOf({"P"})) = 16
    /\ Cardinality(MovesOf({"N"})) = 4
    /\ Cardinality({<<currLegalMoves[i].from, currLegalMoves[i].to>> :
                      i \in 1..Len(currLegalMoves)}) = 20

C19_witness == StandardStart /\ last.op = "new" /\ gameOver = None

\* The moves of the ledger, oldest first, as from-to pairs of square names.
Played ==
  [i \in 1..Len(history) |->
     <<getMoveFromPosition(history[i].from), getMoveFromPosition(history[i].to)>>]

FoolsMate ==
  /\ game.fen = DEFAULT_FEN
  /\ Played = << <<"f2", "f3">>, <<"e7", "e5">>, <<"g2", "g4">>, <<"d8", "h4">> >>

\* C20: from the standard start, after f2f3, e7e5, g2g4, d8h4 White has no
\* legal move and is in check, the check indicator names White and the
\* outcome is a win for Black.
C20_FoolsMate ==
  FoolsMate =>
    \A t \in {This} :
      /\ Len(generateLegalMoves(t, "w").moves) = 0
      /\ Exposed(t, "w")
      /\ currLegalMoves = <<>>
      /\ check = "w"
      /\ gameOver = "0-1"

C20_witness == FoolsMate /\ Succeeded /\ Entry.lan = "qd8h4#"

-----------------------------------------------------------------------------
(* Terminal detection, undo and the generators *)

\* The last call produced a position: a constructor that returned or a
\* move that succeeded.
Settled == (last.op = "new" /\ last.error = "") \/ Succeeded

\* The side that is to move in that position; after a move that ended the
\* game playingColor still names the mover.
SideToMove == IF Succeeded THEN getOppositeColor(Mover) ELSE playingColor

\* The side to move has no legal move and its king is not attacked.
Stalemated ==
  /\ Settled
  /\ ~Exposed(This, SideToMove)
  /\ \E t \in {[This EXCEPT !.playingColor =
                   IF Succeeded THEN Mover ELSE playingColor]} :
        Len(generateLegalMoves(t, SideToMove).moves) = 0

\* C21: a position, constructed directly or reached by a move, in which the
\* side to move has no legal move and is not in check reports the draw
\* outcome "0-0", never a win for either colour.
C21_StalemateIsDraw == Stalemated => gameOver = "0-0"

C21_witness == last.op = "new" /\ Stalemated /\ gameOver = "0-0"

RECURSIVE RankSquares(_, _)
RankSquares(chars, i) ==
  IF i > Len(chars) THEN <<>>
  ELSE IF chars[i] \in PieceValues
  THEN <<chars[i]>> \o RankSquares(chars, i + 1)
  ELSE [k \in 1..NumberOf(chars[i]) |-> None] \o RankSquares(chars, i + 1)

Readable(chars) ==
  \A i \in 1..Len(chars) : chars[i] \in PieceValues \/ NumberOf(chars[i]) \in 1..8

WellFormed(fen) ==
  /\ Len(fen.pieces) = RANK_LENGTH
  /\ \A y \in 1..RANK_LENGTH :
       /\ Readable(fen.pieces[y])
       /\ Len(RankSquares(fen.pieces[y], 1)) = RANK_LENGTH

\* C24: construction from a placement string whose ranks each total 8
\* squares succeeds and puts every piece letter on the file equal to the
\* number of squares before it in its rank (so 4k3 puts the king on the e
\* file); construction from a string with a rank that does not total 8
\* fails.
C24_Placement ==
  last.op = "new" =>
    IF WellFormed(game.fen)
    THEN /\ last.error = ""
         /\ \A y \in 0..(RANK_LENGTH - 1), x \in 0..(RANK_LENGTH - 1) :
              Occupant(This, y, x) = RankSquares(game.fen.pieces[y + 1], 1)[x + 1]
    ELSE last.error # ""

\* The engine as the generators see it when the moves of the side to move
\* are computed: move() computes them before it toggles playingColor, the
\* constructor and undo() with playingColor naming the side to move.
Generating == [This EXCEPT !.playingColor = IF Succeeded THEN Mover ELSE @]

Generates == Settled \/ (last.op = "undo" /\ last.error = "")

\* The pieces of the side to move that stand on the board, by kind.
Standing(kinds) ==
  {ref \in 1..Len(pieces) :
     /\ pieces[ref].type \in kinds
     /\ pieces[ref].color = SideToMove
     /\ board[pieces[ref].position.y][pieces[ref].position.x] = ref}

OpposingAt(t, color, y, x) ==
  Occupant(t, y, x) # None /\ ColorOfType(Occupant(t, y, x)) # color

\* An en-passant capture by a pawn of the given colour from pos onto the
\* empty square to: the last ledger entry is a two-square advance of an
\* opposing pawn that now stands beside pos, on the file of to.
EnPassantCapture(t, color, pos, to) ==
  /\ Occupant(t, to.y, to.x) = None
  /\ Occupant(t, pos.y, to.x) = Kind(color, "p", "P")
  /\ Len(t.history) > 0
  /\ LET e == t.history[Len(t.history)]
     IN /\ e.to = Pos(pos.y, to.x)
        /\ e.from.x = to.x
        /\ e.from.y - e.to.y \in {2, -2}
        /\ e.castling = Null /\ e.promotion = Null

\* What C25 allows a pawn to yield.
PawnMayYield(t, piece, to) ==
  LET step == IF piece.color = "w" THEN -1 ELSE 1
      pos == piece.position
  IN /\ ~isPositionOutOfBounds(to)
     /\ \/ /\ to = Pos(pos.y + step, pos.x)
           /\ Occupant(t, to.y, to.x) = None
        \/ /\ to = Pos(pos.y + 2 * step, pos.x)
           /\ Len(piece.history) = 0
           /\ Occupant(t, pos.y + step, pos.x) = None
           /\ Occupant(t, to.y, to.x) = None
        \/ /\ to.y = pos.y + step /\ to.x - pos.x \in {1, -1}
           /\ \/ OpposingAt(t, piece.color, to.y, to.x)
              \/ EnPassantCapture(t, piece.color, pos, to)

\* C25: the pawn generator yields the one-square step only onto an empty
\* square, the two-square advance only for a pawn with an empty history
\* and with both squares empty, a diagonal step only onto an opposing
\* piece or as an en-passant capture, and never a square off the board.
C25_PawnGenerator ==
  Generates =>
    \A ref \in Standing({"P", "p"}) :
      \E t \in {Generating} : \E moves \in {PawnGenerateMoves(t, t.pieces[ref])} :
        \A i \in 1..Len(moves) : PawnMayYield(t, t.pieces[ref], moves[i].to)

\* The same with the diagonal steps onto empty squares left out.
C25_ExceptOntoEmptyDiagonal ==
  Generates =>
    \A ref \in Standing({"P", "p"}) :
      \E t \in {Generating} : \E moves \in {PawnGenerateMoves(t, t.pieces[ref])} :
        \A i \in 1..Len(moves) :
          \/ PawnMayYield(t, t.pieces[ref], moves[i].to)
          \/ /\ moves[i].to.x # t.pieces[ref].position.x
             /\ Occupant(t, moves[i].to.y, moves[i].to.x) = None

\* Every piece that stands on the board, of either colour, by kind.
OnBoardOf(kinds) ==
  {ref \in 1..Len(pieces) :
     /\ pieces[ref].type \in kinds
     /\ board[pieces[ref].position.y][pieces[ref].position.x] = ref}

AllPositions ==
  {Pos(y, x) : y \in 0..(RANK_LENGTH - 1), x \in 0..(RANK_LENGTH - 1)}

Destinations(moves) == {moves[i].to : i \in 1..Len(moves)}

Diagonal == {<<-1, -1>>, <<-1, 1>>, <<1, -1>>, <<1, 1>>}
Orthogonal == {<<-1, 0>>, <<1, 0>>, <<0, -1>>, <<0, 1>>}

\* The squares a ray piece reaches: along each direction every empty square
\* before the first occupied one, and that one if it holds an opposing piece.
RaySquares(t, piece, directions) ==
  {sq \in AllPositions :
     \E d \in directions, n \in 1..(RANK_LENGTH - 1) :
        /\ sq = Pos(piece.position.y + n * d[1], piece.position.x + n * d[2])
        /\ \A m \in 1..(n - 1) :
             Occupant(t, piece.position.y + m * d[1],
                         piece.position.x + m * d[2]) = None
        /\ \/ Occupant(t, sq.y, sq.x) = None
           \/ OpposingAt(t, piece.color, sq.y, sq.x)}

RayDirections(type) ==
  CASE type \in {"B", "b"} -> Diagonal
    [] type \in {"R", "r"} -> Orthogonal
    [] type \in {"Q", "q"} -> Diagonal \cup Orthogonal

\* C26: for every bishop, rook and queen on the board the generator yields,
\* each once, exactly the squares of its rays: every empty square up to the
\* first occupied one, that one only if it holds an opposing piece, nothing
\* beyond; the bishop along the 4 diagonals, the rook along the 4
\* orthogonals, the queen along all 8.
C26_RayPieces ==
  Constructed =>
    \A ref \in OnBoardOf({"B", "b", "R", "r", "Q", "q"}) :
      \E t \in {This} : \E moves \in {PieceGenerateMoves(t, t.pieces[ref])} :
        /\ Destinations(moves) = RaySquares(t, t.pieces[ref], RayDirections(t.pieces[ref].type))
        /\ Cardinality(Destinations(moves)) = Len(moves)
        /\ \A i \in 1..Len(moves) : moves[i].from = t.pieces[ref].position

\* A queen with a diagonal ray that ends on an opposing piece and an
\* orthogonal ray that ends before a piece of its own colour.
C26_witness ==
  \E ref \in OnBoardOf({"Q", "q"}) :
    \E sq \in Destinations(PieceGenerateMoves(This, pieces[ref])) :
      /\ sq.y # pieces[ref].position.y /\ sq.x # pieces[ref].position.x
      /\ OpposingAt(This, pieces[ref].color, sq.y, sq.x)
      /\ \E d \in Orthogonal, n \in 2..(RANK_LENGTH - 1) :
           /\ Occupant(This, pieces[ref].position.y + n * d[1],
                             pieces[ref].position.x + n * d[2]) # None
           /\ ~OpposingAt(This, pieces[ref].color,
                          pieces[ref].position.y + n * d[1],
                          pieces[ref].position.x + n * d[2])
           /\ Pos(pieces[ref].position.y + (n - 1) * d[1],
                  pieces[ref].position.x + (n - 1) * d[2])
                \in Destinations(PieceGenerateMoves(This, pieces[ref]))

\* The squares at the given offsets from the piece that are on the board
\* and not held by a piece of its colour.
OffsetSquares(t, piece, offsets) ==
  {sq \in AllPositions :
     /\ <<sq.y - piece.position.y, sq.x - piece.position.x>> \in offsets
     /\ \/ Occupant(t, sq.y, sq.x) = None
        \/ OpposingAt(t, piece.color, sq.y, sq.x)}

KnightJumps ==
  {d \in (-2..2) \X (-2..2) : d[1] * d[1] + d[2] * d[2] = 5}

KingSteps ==
  {d \in (-1..1) \X (-1..1) : d # <<0, 0>>}

\* C27: for every knight and king on the board the generator yields, each
\* once, exactly those of its 8 fixed-offset destinations that are on the
\* board and not held by a piece of its own colour.
C27_OffsetPieces ==
  Constructed =>
    \A ref \in OnBoardOf({"N", "n", "K", "k"}) :
      \E t \in {This} : \E moves \in {PieceGenerateMoves(t, t.pieces[ref])} :
        /\ Destinations(moves) =
             OffsetSquares(t, t.pieces[ref],
                           IF t.pieces[ref].type \in {"N", "n"}
                           THEN KnightJumps ELSE KingSteps)
        /\ Cardinality(Destinations(moves)) = Len(moves)
        /\ \A i \in 1..Len(moves) : moves[i].from = t.pieces[ref].position

\* A knight with a destination off the board, one held by its own colour
\* and one held by the other colour, after a move.
C27_witness ==
  /\ Succeeded
  /\ \E ref \in OnBoardOf({"N", "n"}) :
       /\ \E d \in KnightJumps :
            isPositionOutOfBounds(Pos(pieces[ref].position.y + d[1],
                                      pieces[ref].position.x + d[2]))
       /\ \E d \in KnightJumps :
            /\ Occupant(This, pieces[ref].position.y + d[1],
                              pieces[ref].position.x + d[2]) # None
            /\ ~OpposingAt(This, pieces[ref].color, pieces[ref].position.y + d[1],
                           pieces[ref].position.x + d[2])
       /\ Len(PieceGenerateMoves(This, pieces[ref])) > 0

\* The last call was a successful undo(); Undone is the entry it removed
\* and UndoneMover the player who had made that move.
Reverted == last.op = "undo" /\ last.error = ""
Undone == before.history[Len(before.history)]
UndoneMover == before.pieces[before.board[Undone.to.y][Undone.to.x]].color

\* C28: undoing a promotion puts the original pawn object back on the
\* source square with one entry less in its history, which ends as it did
\* before the move; the promoted piece is on no square; a piece captured on
\* the destination is back on it, and otherwise the destination is empty.
C28_UndoPromotion ==
  Reverted /\ Undone.promotion # Null =>
    LET e == Undone
        pawn == e.promotion
        promoted == before.board[e.to.y][e.to.x]
    IN /\ board[e.from.y][e.from.x] = pawn
       /\ IsPawn(pieces[pawn])
       /\ pieces[pawn].position = e.from
       /\ before.pieces[pawn].history = Append(pieces[pawn].history, e.from)
       /\ promoted # pawn
       /\ promoted \notin OnBoard(This)
       /\ board[e.to.y][e.to.x] = e.capture
       /\ e.capture # Null => pieces[e.capture].position = e.to

\* The undo of a promotion that captured.
C28_witness ==
  /\ Reverted /\ Undone.promotion # Null /\ Undone.capture # Null
  /\ board[Undone.to.y][Undone.to.x] = Undone.capture

UndoTurn ==
  /\ playingColor = UndoneMover
  /\ gameOver = None
  /\ check = IF \A t \in {This} : Exposed(t, UndoneMover) THEN UndoneMover ELSE None

\* The cache holds what the legality filter yields for the side to move.
UndoCacheComputed ==
  \A t \in {This} : currLegalMoves = generateLegalMoves(t, playingColor).moves

\* No pawn move of the cache goes diagonally onto an empty square unless it
\* is an en-passant capture.
UndoCachePawnMoves ==
  \A t \in {This} : \A i \in 1..Len(currLegalMoves) :
    \A from \in {currLegalMoves[i].from} :
      \A ref \in {t.board[from.y][from.x]} :
        ref # Null /\ IsPawn(t.pieces[ref]) =>
          PawnMayYield(t, t.pieces[ref], currLegalMoves[i].to)

\* C30: after undo() of any move, a mating or stalemating one included,
\* the side to move is the player who made the undone move, gameOver is
\* unset, check names that player exactly if its king is attacked, and the
\* cache is that player's set of legal moves.
C30_AfterUndo ==
  Reverted => UndoTurn /\ UndoCacheComputed /\ UndoCachePawnMoves

\* The same without the test of the cache's pawn moves.
C30_ExceptCachedPawnMoves ==
  Reverted => UndoTurn /\ UndoCacheComputed

-----------------------------------------------------------------------------
(* En passant, terminal states and castling on constructed positions *)

\* The candidates the generator marks as en passant for the pawn ref when
\* the side-to-move field holds color.
EnPassantCandidates(t, ref, color) ==
  LET u == [t EXCEPT !.playingColor = color]
      moves == PawnGenerateMoves(u, u.pieces[ref])
  IN {moves[i].to : i \in {j \in 1..Len(moves) : moves[j].enPassant}}

\* C31: for every pawn on the board the en-passant candidates the generator
\* returns are the same whichever colour the side-to-move field names, the
\* board and the en-passant target being the same.
C31_EnPassantIgnoresSideToMove ==
  Constructed =>
    \A ref \in OnBoardOf({"P", "p"}) :
      \A t \in {This} :
        EnPassantCandidates(t, ref, "w") = EnPassantCandidates(t, ref, "b")

\* C32: after a pawn's two-square advance the en-passant target is the
\* square the pawn skipped, on its file and midway between its source and
\* its landing square.
C32_TargetIsSkippedSquare ==
  DoubleStep =>
    enPassantable = Pos((Entry.from.y + Entry.to.y) \div 2, Entry.from.x)

\* The last call was a successful pawn move that changed file.
PawnChangedFile ==
  /\ Succeeded
  /\ Entry.castling = Null
  /\ IsPawn(before.pieces[Moved])
  /\ Entry.to.x # Entry.from.x

\* C33: a successful pawn move that changes file removes exactly one piece,
\* an opposing one: the piece that stood on the destination or, the
\* destination having been empty, an opposing pawn beside the source that
\* advanced two squares on the ply just before.
C33_PawnCaptureRemovesOne ==
  PawnChangedFile =>
    \A removed \in {Removed} :
      /\ Cardinality(removed) = 1
      /\ \A ref \in removed :
           /\ before.pieces[ref].color # Mover
           /\ \/ before.pieces[ref].position = Entry.to
              \/ /\ before.board[Entry.to.y][Entry.to.x] = Null
                 /\ IsPawn(before.pieces[ref])
                 /\ before.pieces[ref].position = Pos(Entry.from.y, Entry.to.x)
                 /\ Len(before.history) > 0
                 /\ LET advance == before.history[Len(before.history)]
                    IN /\ advance.castling = Null
                       /\ advance.to = before.pieces[ref].position
                       /\ advance.from.x = advance.to.x
                       /\ advance.to.y - advance.from.y \in {2, -2}

\* The castling requests of the side to move: its king's square and the
\* squares two files from it on the same rank.
CastlingRequests(t) ==
  LET from == IF t.playingColor = "w" THEN t.whiteKingPosition
              ELSE t.blackKingPosition
  IN {<<from, Pos(from.y, from.x + dx)>> : dx \in {-2, 2}}

\* Some move() call succeeds: one for a move of the cache, or a castling.
AcceptsSomeMove(t) ==
  \/ \E i \in 1..Len(t.currLegalMoves) :
       move(t, t.currLegalMoves[i].from, t.currLegalMoves[i].to, Omitted).error = ""
  \/ \E request \in CastlingRequests(t) :
       move(t, request[1], request[2], Omitted).error = ""

Outcome(t) ==
  [board |-> [y \in 0..(RANK_LENGTH - 1) |->
                [x \in 0..(RANK_LENGTH - 1) |-> Occupant(t, y, x)]],
   playingColor |-> t.playingColor,
   enPassantable |-> t.enPassantable,
   check |-> t.check,
   gameOver |-> t.gameOver,
   lan |-> IF Len(t.history) = 0 THEN <<>> ELSE t.history[Len(t.history)].lan]

\* After the last successful move m: undo() and then m again succeed and
\* end in the outcome m ended in.
Replays ==
  \A t \in {This} : \A undone \in {undo(t)} :
    /\ undone.error = ""
    /\ \A again \in {move(undone.t, Entry.from, Entry.to, last.promotion)} :
         /\ again.error = ""
         /\ Outcome(again.t) = Outcome(t)

\* C35: for every move m that succeeds, en-passant captures included, the
\* sequence m, undo, m succeeds again and ends in the same board, side to
\* move, en-passant target, check indicator, terminal outcome and
\* last-entry notation as the first m.
C35_MoveUndoMove == Succeeded => Replays

\* The same for the moves not made as en-passant captures.
C35_ExceptEnPassant == Succeeded /\ ~EnPassantFlagged => Replays

\* The check indicator names a colour exactly if that colour's king is
\* attacked by an opposing piece.
CheckIsAttack ==
  \A t \in {This} : \A color \in {"w", "b"} : check = color <=> Exposed(t, color)

\* The game was constructed from a position of standard chess in this
\* respect: the side that is not to move was not in check.
StartsLegal ==
  \A c \in {constructor(game.fen)} :
    c.error = "" /\ ~Exposed(c.t, getOppositeColor(game.fen.color))

\* The player who made the last move of the ledger.
LastMover == pieces[board[Entry.to.y][Entry.to.x]].color

\* C36: in every state of a game that started from such a position the
\* check indicator names a colour if and only if the king of that colour is
\* attacked by an opposing piece, and it never names the player who made
\* the last move of the ledger.
C36_CheckIndicator ==
  StartsLegal =>
    /\ CheckIsAttack
    /\ Len(history) > 0 => check # LastMover

\* The second part alone.
C36_NeverLastMover == Len(history) > 0 => check # LastMover

\* The side to move has no legal move and its king is attacked.
Checkmated ==
  /\ Settled
  /\ Exposed(This, SideToMove)
  /\ \E t \in {[This EXCEPT !.playingColor =
                   IF Succeeded THEN Mover ELSE playingColor]} :
        Len(generateLegalMoves(t, SideToMove).moves) = 0

\* C37: a position in which the side to move is in check and has no legal
\* move reports a win for the other colour, whether it was constructed
\* directly or reached by a mating move.
C37_MateIsWinForOtherSide ==
  Checkmated => gameOver = IF SideToMove = "w" THEN "0-1" ELSE "1-0"

\* The same for the positions reached by a move.
C37_ReachedByMove ==
  Checkmated /\ Succeeded => gameOver = IF SideToMove = "w" THEN "0-1" ELSE "1-0"

\* The board after the pawn on from has captured en passant onto to: the
\* pawn stands on to, and from and the captured pawn's square are empty.
AfterEnPassant(t, from, to) ==
  [t EXCEPT !.board =
     [y \in 0..(RANK_LENGTH - 1) |->
        [x \in 0..(RANK_LENGTH - 1) |->
           IF Pos(y, x) = to THEN t.board[from.y][from.x]
           ELSE IF Pos(y, x) = from \/ Pos(y, x) = Pos(from.y, to.x) THEN Null
           ELSE t.board[y][x]]]]

InCache(from, to) ==
  \E i \in 1..Len(currLegalMoves) :
    currLegalMoves[i].from = from /\ currLegalMoves[i].to = to

\* The en-passant captures open to the side to move: source and destination
\* of each candidate the generator marks for one of its pawns, when an
\* opposing pawn that has just advanced two squares stands beside the source.
EnPassantOpen ==
  {c \in UNION {{<<pieces[ref].position, to>> :
                    to \in EnPassantCandidates(Generating, ref, Generating.playingColor)} :
                ref \in Standing({"P", "p"})} :
     EnPassantCapture(This, SideToMove, c[1], c[2])}

\* C38: an en-passant candidate is in the legal-move set if and only if,
\* with the capturing pawn on its destination and the captured pawn off
\* its square, the mover's king is not attacked.
C38_EnPassantLegality ==
  Generates /\ gameOver = None =>
    \A c \in EnPassantOpen :
      InCache(c[1], c[2]) <=>
        \A t \in {This} : ~Exposed(AfterEnPassant(t, c[1], c[2]), SideToMove)

HomeRank(color) == IF color = "w" THEN RANK_LENGTH - 1 ELSE 0

\* C39: a king move of two files along its rank is accepted as castling
\* only from file e of the king's home rank; after an accepted castling the
\* king stands on file c or g and the rook on file d or f of that rank, and
\* both kings are on the board.
C39_CastlingFromHomeSquare ==
  Castled =>
    /\ Entry.from = Pos(HomeRank(Mover), 4)
    /\ \E x \in {2, 6} : Occupant(This, HomeRank(Mover), x) = Kind(Mover, "K", "k")
    /\ \E x \in {3, 5} :
         /\ board[HomeRank(Mover)][x] = Entry.castling
         /\ pieces[Entry.castling].type = Kind(Mover, "R", "r")
    /\ KingSquares(This, "w") # {}
    /\ KingSquares(This, "b") # {}

=============================================================================
